---- MODULE Spec2Model ----
(***************************************************************************)
(* CSV / TSV detection of anchore/mimetype: internal/csv/detect.go,        *)
(* internal/util (DropLastLine) and internal/magic/text_csv.go.            *)
(*                                                                         *)
(* One call of Detect(raw, delimiter, limit) is a run of the state machine *)
(* below: the reader built by prepSvReader is read in chunks by            *)
(* slidingWindow.Process, detectState.read is called once per visited      *)
(* byte, and the run ends with resetLine and isValidCSV.                   *)
(* Bytes are their integer values; Go's 0-based indices are kept.          *)
(***************************************************************************)
EXTENDS Integers, Sequences, FiniteSets, TLC

\* ---------------------------------------------------------------- bytes
svLineLimit == 10
quote == 34
comment == 35
LF == 10
CR == 13
Comma == 44
Tab == 9
Zero == 48
\* a nil *byte (no previous / next byte)
NoByte == -1

\* ---------------------------------------------------------------- bounds
MaxLen == 5
MaxLimit == 4
MaxLimitLen == 4
MaxLenLF == 5
MaxTail == 3
MaxBareTail == 4
MaxTruncLen == 4
MaxTruncTail == 2
MaxLongTail == 1
MaxAnyLen == 2
MaxDropLen == 4
MaxData == 5
MaxBuf == 3
MaxAhead == 2
MaxBehind == 2
MaxOffset == 3

Delimiters == {Comma, Tab}
Limits == 0..MaxLimit
\* read compares a byte only with the delimiter, the quote, the comment marker,
\* '\n' and '\r': Zero stands for every other byte
Alphabet(delim) == {delim, quote, comment, LF, CR, Zero}

SeqsUpTo(S, n) == UNION {[1..k -> S] : k \in 0..n}
Inputs(delim) == SeqsUpTo(Alphabet(delim), MaxLen)

\* ---------------------------------------------------------------- helpers
Min(a, b) == IF a < b THEN a ELSE b
\* buf[i] with Go's 0-based index
At(buf, i) == buf[i + 1]
\* buf[lo:hi]
Slice(buf, lo, hi) == IF hi <= lo THEN << >> ELSE SubSeq(buf, lo + 1, hi)
\* m[k] of a Go map[int]int: the zero value for a missing key
MapGet(m, k) == IF k \in DOMAIN m THEN m[k] ELSE 0
MapPut(m, k, v) == [x \in (DOMAIN m) \cup {k} |-> IF x = k THEN v ELSE m[x]]
EmptyMap == [x \in {} |-> 0]

isByte(b, c) == b # NoByte /\ b = c

\* ---------------------------------------------------------------- util.DropLastLine
RECURSIVE LastLFFrom(_, _)
\* the loop "for i := len(b)-1; i > 0; i--" from i on: the first i it finds
\* with b[i] = '\n', or 0 when it runs out
LastLFFrom(b, i) ==
    IF i <= 0 THEN 0
    ELSE IF At(b, i) = LF THEN i
    ELSE LastLFFrom(b, i - 1)

\* DropLastLine that keeps the line feed it stops at
DropLastLine_keepsLF(b, readLimit) ==
    IF readLimit = 0 \/ Len(b) < readLimit THEN b
    ELSE LET i == LastLFFrom(b, Len(b) - 1)
         IN  IF i > 0 THEN Slice(b, 0, i + 1) ELSE b

DropLastLine(b, readLimit) ==
    IF readLimit = 0 \/ Len(b) < readLimit THEN b
    ELSE LET i == LastLFFrom(b, Len(b) - 1)
         IN  IF i > 0 THEN Slice(b, 0, i) ELSE b

\* prepSvReader: the bytes the reader will deliver, bytes.NewReader wrapped in
\* io.LimitReader when limit > 0
prepSvReader(in, lim) ==
    LET b == DropLastLine(in, lim)
    IN  IF lim > 0 THEN Slice(b, 0, Min(Len(b), lim)) ELSE b

\* ---------------------------------------------------------------- detectState
newDetectState(delim, lineLim) ==
    [ delimiter |-> delim, lineLimit |-> lineLim,
      prev |-> NoByte, cur |-> 0, next |-> NoByte,
      lineSize |-> 0, csvLineIdx |-> 0, quoteCount |-> 0,
      sawCsvDataOnCurrentLine |-> FALSE, isWithinInferredQuote |-> FALSE,
      isWithinExplicitQuote |-> FALSE, isWithinComment |-> FALSE,
      nextIsFieldTerminator |-> FALSE, isNewline |-> FALSE,
      recordFields |-> EmptyMap,
      complete |-> FALSE, invalid |-> FALSE ]

\* the pair (state after the call, returned offset)
Ret(d, off) == [d |-> d, off |-> off]

markInvalid(d) == [d EXCEPT !.complete = TRUE, !.invalid = TRUE]

markComplete(d) == [d EXCEPT !.complete = TRUE]

lineHasData(d) == d.csvLineIdx \in DOMAIN d.recordFields

resetLine(d) ==
    [d EXCEPT !.isWithinInferredQuote = FALSE,
              !.quoteCount = 0,
              !.csvLineIdx = IF d.sawCsvDataOnCurrentLine THEN @ + 1 ELSE @,
              !.sawCsvDataOnCurrentLine = FALSE,
              !.lineSize = 0,
              !.isWithinComment = FALSE]

\* incrementFields that counts the first delimiter of a line as one field
incrementFields_fromOne(d) ==
    LET rf2 == MapPut(d.recordFields, d.csvLineIdx,
                      MapGet(d.recordFields, d.csvLineIdx) + 1)
    IN  [d EXCEPT !.recordFields = rf2, !.sawCsvDataOnCurrentLine = TRUE]

incrementFields(d) ==
    LET rf1 == IF MapGet(d.recordFields, d.csvLineIdx) = 0
               THEN MapPut(d.recordFields, d.csvLineIdx, 1)
               ELSE d.recordFields
        rf2 == MapPut(rf1, d.csvLineIdx, rf1[d.csvLineIdx] + 1)
    IN  [d EXCEPT !.recordFields = rf2, !.sawCsvDataOnCurrentLine = TRUE]

\* startDataLine: the state after the call and the returned isNew
startDataLine(d) ==
    LET isNew == d.csvLineIdx \notin DOMAIN d.recordFields
        rf == IF isNew THEN MapPut(d.recordFields, d.csvLineIdx, 0)
              ELSE d.recordFields
    IN  [d |-> [d EXCEPT !.recordFields = rf, !.sawCsvDataOnCurrentLine = TRUE],
         isNew |-> isNew]

\* newField that does not infer a lazily quoted field after the delimiter
newField_noInfer(d) ==
    LET d1 == [d EXCEPT !.isWithinInferredQuote = FALSE]
        d2 == IF d1.quoteCount = 1 /\ ~d1.isWithinInferredQuote
              THEN markInvalid(d1) ELSE d1
        d3 == [d2 EXCEPT !.quoteCount = 0]
    IN  incrementFields(d3)

\* newField that carries quoteCount over to the next field
newField_keepsQuoteCount(d) ==
    LET d1 == [d EXCEPT !.isWithinInferredQuote = FALSE]
        d2 == IF d1.quoteCount = 1 /\ ~d1.isWithinInferredQuote
              THEN markInvalid(d1) ELSE d1
        d4 == incrementFields(d2)
    IN  IF ~d4.isWithinInferredQuote
           /\ ~isByte(d4.next, quote) /\ ~d4.nextIsFieldTerminator
        THEN [d4 EXCEPT !.isWithinInferredQuote = TRUE]
        ELSE d4

newField(d) ==
    LET d1 == [d EXCEPT !.isWithinInferredQuote = FALSE]
        d2 == IF d1.quoteCount = 1 /\ ~d1.isWithinInferredQuote
              THEN markInvalid(d1) ELSE d1
        d3 == [d2 EXCEPT !.quoteCount = 0]
        d4 == incrementFields(d3)
    IN  IF ~d4.isWithinInferredQuote
           /\ ~isByte(d4.next, quote) /\ ~d4.nextIsFieldTerminator
        THEN [d4 EXCEPT !.isWithinInferredQuote = TRUE]
        ELSE d4

\* handleDataCharacter that lets a '#' open a comment inside an inferred quote
handleDataCharacter_commentInField(d) ==
    IF d.cur = comment /\ ~d.isWithinExplicitQuote
    THEN [d EXCEPT !.isWithinComment = TRUE]
    ELSE IF d.cur = d.delimiter
    THEN IF ~d.isWithinExplicitQuote THEN newField(d) ELSE d
    ELSE LET s == startDataLine(d)
         IN  IF s.isNew /\ d.cur # quote
             THEN [s.d EXCEPT !.isWithinInferredQuote = TRUE]
             ELSE s.d

\* handleDataCharacter that infers a quote on every data byte, not only on the
\* first one of a line
handleDataCharacter_inferAlways(d) ==
    IF d.cur = comment /\ ~d.isWithinExplicitQuote /\ ~d.isWithinInferredQuote
    THEN [d EXCEPT !.isWithinComment = TRUE]
    ELSE IF d.cur = d.delimiter
    THEN IF ~d.isWithinExplicitQuote THEN newField(d) ELSE d
    ELSE LET s == startDataLine(d)
         IN  IF d.cur # quote
             THEN [s.d EXCEPT !.isWithinInferredQuote = TRUE]
             ELSE s.d

handleDataCharacter(d) ==
    IF d.cur = comment /\ ~d.isWithinExplicitQuote /\ ~d.isWithinInferredQuote
    THEN [d EXCEPT !.isWithinComment = TRUE]
    ELSE IF d.cur = d.delimiter
    THEN IF ~d.isWithinExplicitQuote THEN newField(d) ELSE d
    ELSE LET s == startDataLine(d)
         IN  IF s.isNew /\ d.cur # quote
             THEN [s.d EXCEPT !.isWithinInferredQuote = TRUE]
             ELSE s.d

\* handleQuoteCheck without the look at the field terminator: a closed quote
\* always invalidates
handleQuoteCheck_noTerminator(d) ==
    IF d.isWithinExplicitQuote \/ d.isWithinInferredQuote THEN Ret(d, 0)
    ELSE Ret(markInvalid(d), 0)

\* handleQuote from "if d.isWithinExplicitQuote || d.isWithinInferredQuote" on
handleQuoteCheck(d) ==
    IF d.isWithinExplicitQuote \/ d.isWithinInferredQuote THEN Ret(d, 0)
    ELSE IF d.nextIsFieldTerminator THEN Ret(d, 0)
    ELSE Ret(markInvalid(d), 0)

\* handleQuoteExplicit that does not skip the second quote of an escape
handleQuoteExplicit_noSkip(d) ==
    IF isByte(d.next, quote) THEN Ret(d, 0)
    ELSE IF d.nextIsFieldTerminator
    THEN handleQuoteCheck([d EXCEPT !.isWithinExplicitQuote = FALSE,
                                    !.quoteCount = @ + 1])
    ELSE Ret(d, 0)

\* handleQuoteExplicit that rejects a quote followed by neither a quote nor a
\* field terminator
handleQuoteExplicit_strict(d) ==
    IF isByte(d.next, quote) THEN Ret(d, 1)
    ELSE IF d.nextIsFieldTerminator
    THEN handleQuoteCheck([d EXCEPT !.isWithinExplicitQuote = FALSE,
                                    !.quoteCount = @ + 1])
    ELSE Ret(markInvalid(d), 0)

\* handleQuote, the branch "if d.isWithinExplicitQuote"
handleQuoteExplicit(d) ==
    IF isByte(d.next, quote) THEN Ret(d, 1)
    ELSE IF d.nextIsFieldTerminator
    THEN handleQuoteCheck([d EXCEPT !.isWithinExplicitQuote = FALSE,
                                    !.quoteCount = @ + 1])
    ELSE Ret(d, 0)

\* handleQuoteOther that counts the quote closing an inferred quote once
handleQuoteOther_countsOnce(d) ==
    IF d.isWithinInferredQuote
    THEN IF isByte(d.next, d.delimiter)
         THEN handleQuoteCheck([d EXCEPT !.isWithinInferredQuote = FALSE,
                                         !.quoteCount = @ + 1])
         ELSE handleQuoteCheck(d)
    ELSE handleQuoteCheck([d EXCEPT !.isWithinExplicitQuote = TRUE,
                                    !.isWithinInferredQuote = FALSE,
                                    !.quoteCount = @ + 1])

\* handleQuote, the else branch: within an inferred quote, or starting a quote
handleQuoteOther(d) ==
    IF d.isWithinInferredQuote
    THEN IF isByte(d.next, d.delimiter)
         THEN handleQuoteCheck([d EXCEPT !.isWithinInferredQuote = FALSE,
                                         !.quoteCount = @ + 2])
         ELSE handleQuoteCheck(d)
    ELSE handleQuoteCheck([d EXCEPT !.isWithinExplicitQuote = TRUE,
                                    !.isWithinInferredQuote = FALSE,
                                    !.quoteCount = @ + 1])

handleQuote(d) ==
    IF d.isWithinComment THEN Ret(d, 0)
    ELSE LET d1 == startDataLine(d).d
         IN  IF d1.isWithinExplicitQuote THEN handleQuoteExplicit(d1)
             ELSE handleQuoteOther(d1)

\* processLineChar that forgets the comment
processLineChar_noComment(d) ==
    IF d.cur = quote THEN handleQuote(d)
    ELSE Ret(handleDataCharacter(d), 0)

processLineChar(d) ==
    IF d.cur = quote THEN handleQuote(d)
    ELSE IF ~d.isWithinComment THEN Ret(handleDataCharacter(d), 0)
    ELSE Ret(d, 0)

\* handleNewline that applies the line cap whatever lineLimit is
handleNewline_capAlways(d) ==
    IF d.isWithinExplicitQuote THEN d
    ELSE IF d.csvLineIdx >= d.lineLimit THEN markComplete(d)
    ELSE IF ~d.isWithinComment /\ d.lineSize > 0 /\ ~lineHasData(d)
    THEN markInvalid(d)
    ELSE resetLine(d)

handleNewline(d) ==
    IF d.isWithinExplicitQuote THEN d
    ELSE IF d.lineLimit > 0 /\ d.csvLineIdx >= d.lineLimit THEN markComplete(d)
    ELSE IF ~d.isWithinComment /\ d.lineSize > 0 /\ ~lineHasData(d)
    THEN markInvalid(d)
    ELSE resetLine(d)

\* isTrailingCR that never drops the carriage return
isTrailingCR_never(cur, prev, isNoNext) == FALSE

\* read: "drop trailing carriage returns", the condition of the early return
isTrailingCR(cur, prev, isNoNext) == cur = CR /\ isByte(prev, LF) /\ isNoNext

\* newlineOffset that lets Process visit the '\n' of a "\r\n"
newlineOffset_zero(isWindowsNewline) == 0

\* newlineOffset that steps back on a line feed, so that Process stays on it
newlineOffset_back(isWindowsNewline) == IF isWindowsNewline THEN 1 ELSE -1

\* read: the offset returned after handleNewline
newlineOffset(isWindowsNewline) == IF isWindowsNewline THEN 1 ELSE 0

\* read that goes on processing bytes after complete is set
read_ignoresComplete(d, buf, i, n) ==
    IF i < 0 THEN Ret(d, i * (-1))
    ELSE
    LET cur == At(buf, i)
        prev == IF i > 0 THEN At(buf, i - 1) ELSE NoByte
        next == IF i < n - 1 THEN At(buf, i + 1) ELSE NoByte
        isNoNext == next = NoByte
        nextNext == IF i < n - 2 THEN At(buf, i + 2) ELSE NoByte
        isNextLinuxNewline == cur # CR /\ isByte(next, LF)
        isNextWindowsNewline == isByte(next, CR) /\ isByte(nextNext, LF)
        isNextDelimiter == isByte(next, d.delimiter)
        isLinuxNewline == cur = LF /\ ~isByte(prev, CR)
        isWindowsNewline == cur = CR /\ isByte(next, LF)
        d1 == [d EXCEPT !.cur = cur, !.prev = prev, !.next = next,
                        !.nextIsFieldTerminator =
                            isNextLinuxNewline \/ isNextWindowsNewline
                            \/ isNextDelimiter \/ isNoNext,
                        !.isNewline = isLinuxNewline \/ isWindowsNewline]
    IN  IF isTrailingCR(cur, prev, isNoNext) THEN Ret(d1, 0)
        ELSE IF ~d1.isNewline
        THEN processLineChar([d1 EXCEPT !.lineSize = @ + 1])
        ELSE Ret(handleNewline(d1), newlineOffset(isWindowsNewline))

\* detectState.read(buf, i, n): the state after the call and the returned offset
read(d, buf, i, n) ==
    IF d.complete THEN Ret(d, 0)
    ELSE IF i < 0 THEN Ret(d, i * (-1))
    ELSE
    LET cur == At(buf, i)
        prev == IF i > 0 THEN At(buf, i - 1) ELSE NoByte
        next == IF i < n - 1 THEN At(buf, i + 1) ELSE NoByte
        isNoNext == next = NoByte
        nextNext == IF i < n - 2 THEN At(buf, i + 2) ELSE NoByte
        isNextLinuxNewline == cur # CR /\ isByte(next, LF)
        isNextWindowsNewline == isByte(next, CR) /\ isByte(nextNext, LF)
        isNextDelimiter == isByte(next, d.delimiter)
        isLinuxNewline == cur = LF /\ ~isByte(prev, CR)
        isWindowsNewline == cur = CR /\ isByte(next, LF)
        d1 == [d EXCEPT !.cur = cur, !.prev = prev, !.next = next,
                        !.nextIsFieldTerminator =
                            isNextLinuxNewline \/ isNextWindowsNewline
                            \/ isNextDelimiter \/ isNoNext,
                        !.isNewline = isLinuxNewline \/ isWindowsNewline]
    IN  IF isTrailingCR(cur, prev, isNoNext) THEN Ret(d1, 0)
        ELSE IF ~d1.isNewline
        THEN processLineChar([d1 EXCEPT !.lineSize = @ + 1])
        ELSE Ret(handleNewline(d1), newlineOffset(isWindowsNewline))

\* isValidCSV: the first loop takes the first positive entry in the map's
\* iteration order, which Go leaves unspecified: any positive entry, else 0
fieldCountChoices(d) ==
    LET pos == {d.recordFields[l] : l \in {k \in DOMAIN d.recordFields : d.recordFields[k] > 0}}
    IN  IF pos = {} THEN {0} ELSE pos

\* isValidCSV without the comparison of the lines' field counts
isValidCSV_noMismatch(d, fieldCount) ==
    IF d.invalid THEN FALSE
    ELSE fieldCount > 1 /\ d.csvLineIdx > 1

\* isValidCSV accepting a single row
isValidCSV_oneRow(d, fieldCount) ==
    IF d.invalid THEN FALSE
    ELSE LET badFieldCount == \E l \in DOMAIN d.recordFields : d.recordFields[l] # fieldCount
         IN  ~badFieldCount /\ fieldCount > 1 /\ d.csvLineIdx > 0

\* isValidCSV that takes only a larger field count for a mismatch
isValidCSV_greaterOnly(d, fieldCount) ==
    IF d.invalid THEN FALSE
    ELSE LET badFieldCount == \E l \in DOMAIN d.recordFields : d.recordFields[l] > fieldCount
         IN  ~badFieldCount /\ fieldCount > 1 /\ d.csvLineIdx > 1

isValidCSV(d, fieldCount) ==
    IF d.invalid THEN FALSE
    ELSE LET badFieldCount == \E l \in DOMAIN d.recordFields : d.recordFields[l] # fieldCount
         IN  ~badFieldCount /\ fieldCount > 1 /\ d.csvLineIdx > 1

\* ---------------------------------------------------------------- svStdlib
\* The reference detector of detect_test.go: Go's encoding/csv Reader with
\* Comma = comma, LazyQuotes = true, Comment = '#', read record by record.

\* Reader.readLine: the next line of rest with its "\n" ("\r\n" normalized to
\* "\n", a "\r" before the end of the input dropped), io.EOF when rest is empty
stdReadLine(rest) ==
    IF rest = << >> THEN [line |-> << >>, eof |-> TRUE, rest |-> << >>]
    ELSE IF \E k \in 1..Len(rest) : rest[k] = LF
    THEN LET k == CHOOSE j \in 1..Len(rest) :
                     rest[j] = LF /\ \A m \in 1..(j - 1) : rest[m] # LF
             l == SubSeq(rest, 1, k)
         IN  [line |-> IF k >= 2 /\ l[k - 1] = CR
                       THEN SubSeq(l, 1, k - 2) \o <<LF>> ELSE l,
              eof |-> FALSE,
              rest |-> SubSeq(rest, k + 1, Len(rest))]
    ELSE [line |-> IF rest[Len(rest)] = CR
                   THEN SubSeq(rest, 1, Len(rest) - 1) ELSE rest,
          eof |-> FALSE,
          rest |-> << >>]

lengthNL(b) == IF Len(b) > 0 /\ b[Len(b)] = LF THEN 1 ELSE 0

\* nextRune(b) == c
nextRuneIs(b, c) == Len(b) > 0 /\ b[1] = c

\* the index of the first c in b (0-based), -1 when there is none
IndexByte(b, c) ==
    IF \E k \in 1..Len(b) : b[k] = c
    THEN (CHOOSE j \in 1..Len(b) : b[j] = c /\ \A m \in 1..(j - 1) : b[m] # c) - 1
    ELSE -1

RECURSIVE stdParseField(_, _, _, _, _)
\* Reader.readRecord, the loop parseField: line is what is left of the current
\* line, rest the input after it, n the fields appended so far; inQuoted says
\* that the loop is inside the inner loop of a quoted field.
\* The number of fields of the record and the input left after it.
stdParseField(line, rest, comma, n, inQuoted) ==
    IF ~inQuoted
    THEN IF Len(line) = 0 \/ line[1] # quote
         THEN \* non-quoted string field
              LET k == IndexByte(line, comma)
              IN  IF k >= 0
                  THEN stdParseField(Slice(line, k + 1, Len(line)), rest, comma,
                                     n + 1, FALSE)
                  ELSE [n |-> n + 1, rest |-> rest]
         ELSE \* quoted string field
              stdParseField(Slice(line, 1, Len(line)), rest, comma, n, TRUE)
    ELSE LET k == IndexByte(line, quote)
         IN  IF k >= 0
             THEN \* hit next quote
                  LET l == Slice(line, k + 1, Len(line))
                  IN  IF nextRuneIs(l, quote)
                      THEN stdParseField(Slice(l, 1, Len(l)), rest, comma, n, TRUE)
                      ELSE IF nextRuneIs(l, comma)
                      THEN stdParseField(Slice(l, 1, Len(l)), rest, comma,
                                         n + 1, FALSE)
                      ELSE IF lengthNL(l) = Len(l)
                      THEN [n |-> n + 1, rest |-> rest]
                      ELSE \* LazyQuotes: a bare quote
                           stdParseField(l, rest, comma, n, TRUE)
             ELSE IF Len(line) > 0
             THEN \* hit end of line: the field goes on on the next line
                  LET r == stdReadLine(rest)
                  IN  stdParseField(r.line, r.rest, comma, n, TRUE)
             ELSE \* abrupt end of file
                  [n |-> n + 1, rest |-> rest]

RECURSIVE stdReadRecord(_, _)
\* Reader.readRecord: skips comment lines and empty lines, then parses one
\* record; eof at the end of the input
stdReadRecord(rest, comma) ==
    LET r == stdReadLine(rest)
    IN  IF nextRuneIs(r.line, comment) THEN stdReadRecord(r.rest, comma)
        ELSE IF ~r.eof /\ Len(r.line) = lengthNL(r.line)
        THEN stdReadRecord(r.rest, comma)
        ELSE IF r.eof THEN [eof |-> TRUE, n |-> 0, rest |-> r.rest]
        ELSE LET f == stdParseField(r.line, r.rest, comma, 0, FALSE)
             IN  [eof |-> FALSE, n |-> f.n, rest |-> f.rest]

RECURSIVE stdReadAll(_, _, _, _)
\* svStdlib's loop over r.Read(): FieldsPerRecord is set by the first record,
\* a later record of another length is ErrFieldCount
stdReadAll(rest, comma, fieldsPerRecord, lines) ==
    LET r == stdReadRecord(rest, comma)
    IN  IF r.eof THEN fieldsPerRecord > 1 /\ lines > 1
        ELSE IF fieldsPerRecord > 0 /\ r.n # fieldsPerRecord THEN FALSE
        ELSE stdReadAll(r.rest, comma,
                        IF fieldsPerRecord = 0 THEN r.n ELSE fieldsPerRecord,
                        lines + 1)

svStdlib(in, comma, lim) == stdReadAll(DropLastLine(in, lim), comma, 0, 0)

\* ---------------------------------------------------------------- slidingWindow
bufSize == 1024

newSlidingWindow(size, ahead, behind) ==
    [ bufSize |-> size,
      lookAhead |-> IF ahead <= 0 THEN 3 ELSE ahead,
      lookBehind |-> IF behind <= 0 THEN 1 ELSE behind,
      window |-> << >>, firstIter |-> TRUE, start |-> 0, end |-> 0 ]

\* len(sw.window)
WindowLen(w) == w.bufSize + w.lookAhead + w.lookBehind

\* Process: the slice sw.window[sw.start:sw.end] of the compaction is out of range
compactPanics(w) == w.start > 0 /\ (w.start > w.end \/ w.end > WindowLen(w))

\* Process: the slice sw.window[sw.end:] of the append is out of range
appendPanics(w, end) == end > WindowLen(w)

\* read: one of buf[i], buf[i-1], buf[i+1], buf[i+2] is out of range
readPanics(d, w, i, n) ==
    /\ ~d.complete
    /\ i >= 0
    /\ \/ i >= WindowLen(w)
       \/ i < n - 1 /\ i + 1 >= WindowLen(w)
       \/ i < n - 2 /\ i + 2 >= WindowLen(w)

\* ---------------------------------------------------------------- state
VARIABLES
    raw,        \* Detect's argument raw
    delimiter,  \* Detect's argument delimiter
    limit,      \* Detect's argument limit
    reader,     \* the bytes the reader has not delivered yet
    readErr,    \* err of the last reader.Read: "nil", "EOF" or "error"
    sw,         \* the slidingWindow; window holds window[0:end]
    state,      \* the detectState
    i,          \* the loop index of Process
    offset,     \* the offset last returned by processFunc
    pc,         \* "read", "main", "final" (loops of Process), "done" (Detect
                \* has returned result), "panic" (Detect has panicked)
    result,     \* Detect's return value once pc = "done"
    pending,    \* the arguments of the calls of Detect the caller makes next
    history,    \* the finished earlier calls: arguments, final state, result
    dl,         \* a call of util.DropLastLine: b, readLimit, the returned slice
    sb,         \* a slidingBuffer; window holds window[0:end]
    it          \* a call of sb.iterate: the mockReader (data, pos), the
                \* processFunc (plan), the locals n, readErr, i, the position pc
                \* ("read", "main", "final", "returned", "panic"), the returned
                \* error ret, and what the caller observed: the bytes processFunc
                \* was called on (log), the number of Reads (reads), and these
                \* counts as they were at the last Read and the last call

vars == <<raw, delimiter, limit, reader, readErr, sw, state, i, offset, pc,
          result, pending, history, dl, sb, it>>

\* newSlidingBuffer (sliding_buffer.go)
newSlidingBuffer(size, ahead, behind) ==
    [ bufSize |-> IF size <= 0 THEN 1024 ELSE size,
      lookAhead |-> IF ahead <= 0 THEN 3 ELSE ahead,
      lookBehind |-> IF behind <= 0 THEN 1 ELSE behind,
      window |-> << >>, firstIter |-> TRUE, start |-> 0, end |-> 0 ]

\* a processFunc as the tests write them: an offset or an error on one byte of
\* the source (plan.at), 0 and nil on every other byte
processFunc(plan, cur) ==
    IF cur = plan.at THEN [off |-> plan.k, err |-> plan.err]
    ELSE [off |-> 0, err |-> "nil"]

\* iterate: the reads that end the call with the reader's error
readFails_never(err) == FALSE

readFails(err) == err # "nil" /\ err # "EOF"

\* iterate: io.EOF from processFunc taken for a processing error
iterateReturn_eofIsError(procErr) == procErr

\* iterate: what it returns when processFunc returns the error procErr
iterateReturn(procErr) == IF procErr = "EOF" THEN "nil" ELSE procErr

\* the call of iterate before its first Read
iterateStart(data, plan) ==
    [ data |-> data, pos |-> 0, plan |-> plan, n |-> 0, readErr |-> "nil",
      i |-> 0, offset |-> 0, pc |-> "read", ret |-> "nil",
      log |-> << >>, reads |-> 0, visitsAtRead |-> 0, readsAtVisit |-> 0 ]

\* no slidingBuffer in use
NoIterate ==
    /\ sb = newSlidingBuffer(0, 0, 0)
    /\ it = [iterateStart(<< >>, [at |-> 0, k |-> 0, err |-> "nil"])
               EXCEPT !.pc = "idle"]

\* no call of DropLastLine on its own
NoDrop == dl = [b |-> << >>, readLimit |-> 0, pc |-> "idle", got |-> << >>]

\* Detect that keeps the line cap when a byte limit is given
Detect_keepsLineLimit(in, delim, lim) ==
    /\ raw = in
    /\ delimiter = delim
    /\ limit = lim
    /\ reader = prepSvReader(in, lim)
    /\ readErr = "nil"
    /\ sw = newSlidingWindow(bufSize, 3, 1)
    /\ state = newDetectState(delim, svLineLimit)
    /\ i = 0
    /\ offset = 0
    /\ pc = "read"
    /\ result = FALSE

\* Detect up to the call of window.Process
Detect(in, delim, lim) ==
    /\ raw = in
    /\ delimiter = delim
    /\ limit = lim
    /\ reader = prepSvReader(in, lim)
    /\ readErr = "nil"
    /\ sw = newSlidingWindow(bufSize, 3, 1)
    /\ state = newDetectState(delim, IF lim > 0 THEN -1 ELSE svLineLimit)
    /\ i = 0
    /\ offset = 0
    /\ pc = "read"
    /\ result = FALSE

\* magic.Csv and magic.Tsv
Csv(in, lim) == Detect(in, Comma, lim)

Tsv(in, lim) == Detect(in, Tab, lim)

\* a call through the matcher of its delimiter
Matcher(in, delim, lim) == IF delim = Comma THEN Csv(in, lim) ELSE Tsv(in, lim)

\* one call, the whole input scanned (limit 0)
Init ==
    /\ \E delim \in Delimiters : \E in \in Inputs(delim) : Matcher(in, delim, 0)
    /\ pending = << >>
    /\ history = << >>
    /\ NoDrop
    /\ NoIterate

\* Process: one reader.Read, the compaction and the append of the chunk
Read ==
    /\ pc = "read"
    /\ LET n == Min(sw.bufSize, Len(reader))
           err == IF Len(reader) = 0 THEN "EOF" ELSE "nil"
       IN  /\ readErr' = err
           /\ reader' = Slice(reader, n, Len(reader))
           /\ IF n = 0
              THEN \* break; sw.start += 1; the final loop starts at sw.start
                   /\ sw' = [sw EXCEPT !.start = @ + 1]
                   /\ i' = sw.start + 1
                   /\ pc' = "final"
              ELSE IF compactPanics(sw)
                      \/ appendPanics(sw, IF sw.start > 0
                                          THEN sw.end - sw.start ELSE sw.end)
              THEN \* slice bounds out of range
                   /\ pc' = "panic"
                   /\ UNCHANGED <<sw, i>>
              ELSE LET kept == IF sw.start > 0
                               THEN Slice(sw.window, sw.start, sw.end)
                               ELSE sw.window
                       all == kept \o Slice(reader, 0, n)
                       \* copy stops at the end of sw.window
                       win == Slice(all, 0, Min(Len(all), WindowLen(sw)))
                   IN  /\ sw' = [sw EXCEPT !.window = win,
                                           !.start = IF sw.start > 0 THEN 0 ELSE @,
                                           !.end = Len(kept) + n,
                                           !.firstIter = FALSE]
                       /\ i' = IF sw.firstIter THEN 0 ELSE sw.lookBehind
                       /\ pc' = "main"
    /\ UNCHANGED <<raw, delimiter, limit, state, offset, result, pending, history, dl, sb, it>>

\* Process: one call of processFunc in the main loop
MainVisit ==
    /\ pc = "main"
    /\ i < sw.end - sw.lookAhead
    /\ IF readPanics(state, sw, i, sw.end)
       THEN \* index out of range
            /\ pc' = "panic"
            /\ UNCHANGED <<state, offset, i>>
       ELSE LET r == read(state, sw.window, i, sw.end)
            IN  /\ state' = r.d
                /\ offset' = r.off
                /\ i' = i + r.off + 1
                /\ pc' = pc
    /\ UNCHANGED <<raw, delimiter, limit, reader, readErr, sw, result,
                   pending, history, dl, sb, it>>

\* Process: the main loop ends; sw.start = i - 1, then the next Read or the break
MainDone ==
    /\ pc = "main"
    /\ i >= sw.end - sw.lookAhead
    /\ IF readErr = "EOF"
       THEN /\ sw' = [sw EXCEPT !.start = i]
            /\ i' = i
            /\ pc' = "final"
       ELSE /\ sw' = [sw EXCEPT !.start = i - 1]
            /\ i' = i
            /\ pc' = "read"
    /\ UNCHANGED <<raw, delimiter, limit, reader, readErr, state, offset, result,
                   pending, history, dl, sb, it>>

\* Process: one call of processFunc in the final loop
FinalVisit ==
    /\ pc = "final"
    /\ i < sw.end
    /\ IF readPanics(state, sw, i, sw.end)
       THEN \* index out of range
            /\ pc' = "panic"
            /\ UNCHANGED <<state, offset, i>>
       ELSE LET r == read(state, sw.window, i, sw.end)
            IN  /\ state' = r.d
                /\ offset' = r.off
                /\ i' = i + r.off + 1
                /\ pc' = pc
    /\ UNCHANGED <<raw, delimiter, limit, reader, readErr, sw, result,
                   pending, history, dl, sb, it>>

\* Detect after Process: state.resetLine() and return state.isValidCSV()
Finish ==
    /\ pc = "final"
    /\ i >= sw.end
    /\ state' = resetLine(state)
    /\ \E fc \in fieldCountChoices(state') : result' = isValidCSV(state', fc)
    /\ pc' = "done"
    /\ UNCHANGED <<raw, delimiter, limit, reader, readErr, sw, i, offset,
                   pending, history, dl, sb, it>>

\* the caller keeps the outcome of the finished call and calls Detect again
\* (the loop over the cases of TestDetect, FuzzDetect's two detectors)
NextCall ==
    /\ pc = "done"
    /\ pending # << >>
    /\ history' = Append(history, [raw |-> raw, delimiter |-> delimiter,
                                   limit |-> limit, state |-> state,
                                   window |-> sw.window,
                                   result |-> result])
    /\ pending' = Tail(pending)
    /\ LET c == Head(pending)
       IN  /\ raw' = c.raw
           /\ delimiter' = c.delimiter
           /\ limit' = c.limit
           /\ reader' = prepSvReader(c.raw, c.limit)
           /\ readErr' = "nil"
           /\ sw' = newSlidingWindow(bufSize, 3, 1)
           /\ state' = newDetectState(c.delimiter,
                                      IF c.limit > 0 THEN -1 ELSE svLineLimit)
           /\ i' = 0
           /\ offset' = 0
           /\ pc' = "read"
           /\ result' = FALSE
    /\ UNCHANGED <<dl, sb, it>>

\* Process with a reader whose Read fails: Process returns the error (line 74)
\* and Detect panics (line 147)
ReadFail ==
    /\ pc = "read"
    /\ readErr' = "error"
    /\ pc' = "panic"
    /\ UNCHANGED <<raw, delimiter, limit, reader, sw, state, i, offset, result,
                   pending, history, dl, sb, it>>

Next == Read \/ MainVisit \/ MainDone \/ FinalVisit \/ Finish

Spec == Init /\ [][Next]_vars

\* one call with a byte limit, on shorter inputs
InitLimit ==
    /\ \E delim \in Delimiters, lim \in Limits :
          \E in \in SeqsUpTo(Alphabet(delim), MaxLimitLen) : Matcher(in, delim, lim)
    /\ pending = << >>
    /\ history = << >>
    /\ NoDrop
    /\ NoIterate

SpecLimit == InitLimit /\ [][Next]_vars

\* a caller that makes several calls of Detect
NextCalls == Next \/ NextCall

RECURSIVE WithCRLF(_)
\* s with every "\n" replaced by "\r\n"
WithCRLF(s) ==
    IF s = << >> THEN << >>
    ELSE (IF Head(s) = LF THEN <<CR, LF>> ELSE <<Head(s)>>) \o WithCRLF(Tail(s))

\* two calls: an input without carriage returns, then the same input with
\* Windows line endings
InitCRLF ==
    /\ \E delim \in Delimiters :
          \E in \in SeqsUpTo(Alphabet(delim) \ {CR}, MaxLenLF) :
             /\ Matcher(in, delim, 0)
             /\ pending = <<[raw |-> WithCRLF(in), delimiter |-> delim, limit |-> 0]>>
    /\ history = << >>
    /\ NoDrop
    /\ NoIterate

SpecCRLF == InitCRLF /\ [][NextCalls]_vars

RECURSIVE Repeat(_, _)
\* n copies of s
Repeat(s, n) == IF n <= 0 THEN << >> ELSE s \o Repeat(s, n - 1)

\* a row that fills one line
CapRows(delim) == {<<delim, LF>>, <<Zero, delim, Zero, CR, LF>>}

\* two calls: svLineLimit equal rows, then the same rows followed by more bytes
InitCap ==
    /\ \E delim \in Delimiters :
          \E row \in CapRows(delim), t \in SeqsUpTo(Alphabet(delim), MaxTail) :
             /\ Matcher(Repeat(row, svLineLimit), delim, 0)
             /\ pending = <<[raw |-> Repeat(row, svLineLimit) \o t,
                             delimiter |-> delim, limit |-> 0]>>
    /\ history = << >>
    /\ NoDrop
    /\ NoIterate

SpecCap == InitCap /\ [][NextCalls]_vars

\* one call on an input that starts like "a"b: a quoted field whose second
\* quote is followed by a data byte
InitBareQuote ==
    /\ \E delim \in Delimiters :
          \E t \in SeqsUpTo(Alphabet(delim), MaxBareTail) :
             Matcher(<<quote, Zero, quote, Zero>> \o t, delim, 0)
    /\ pending = << >>
    /\ history = << >>
    /\ NoDrop
    /\ NoIterate

SpecBareQuote == InitBareQuote /\ [][Next]_vars

\* the first lim bytes of in with the incomplete trailing line dropped: the
\* prefix a caller hands over that has cut its input at lim bytes itself
TruncatedPrefix(in, lim) == DropLastLine(Slice(in, 0, Min(Len(in), lim)), lim)

\* inputs for a byte limit: every short input, and inputs that reach beyond
\* the line cap: svLineLimit + 1 equal rows, one more line, a dropped last line
TruncInputs(delim) ==
    SeqsUpTo(Alphabet(delim), MaxTruncLen)
    \cup { Repeat(row, svLineLimit + 1) \o t \o <<LF, Zero>> :
              row \in CapRows(delim), t \in SeqsUpTo(Alphabet(delim), MaxTruncTail) }

\* the byte limits tried on in: small ones, and the ones just below Len(in)
TruncLimits(in) ==
    {l \in 1..(Len(in) - 1) : l <= MaxLimit \/ l >= Len(in) - 2}

\* four calls: the input with a byte limit smaller than the input; then, with
\* no limit, the first limit bytes with the trailing line dropped; then, with
\* no limit, the bytes the reader of the first call delivered; then, with the
\* same limit, the first limit bytes of the input
InitTrunc ==
    /\ \E delim \in Delimiters :
          \E in \in TruncInputs(delim) :
             \E lim \in TruncLimits(in) :
                /\ Matcher(in, delim, lim)
                /\ pending = <<[raw |-> TruncatedPrefix(in, lim),
                                delimiter |-> delim, limit |-> 0],
                               [raw |-> prepSvReader(in, lim),
                                delimiter |-> delim, limit |-> 0],
                               [raw |-> Slice(in, 0, lim),
                                delimiter |-> delim, limit |-> lim]>>
    /\ history = << >>
    /\ NoDrop
    /\ NoIterate

SpecTrunc == InitTrunc /\ [][NextCalls]_vars

\* two calls with the same bytes, delimiter and limit
InitTwice ==
    /\ \E delim \in Delimiters, lim \in Limits :
          \E in \in SeqsUpTo(Alphabet(delim), MaxLimitLen) :
             /\ Matcher(in, delim, lim)
             /\ pending = <<[raw |-> in, delimiter |-> delim, limit |-> lim]>>
    /\ history = << >>
    /\ NoDrop
    /\ NoIterate

SpecTwice == InitTwice /\ [][NextCalls]_vars

\* n plain data bytes
Pad(n) == [k \in 1..n |-> Zero]

\* inputs that take more than one reader.Read: plain data up to the last byte
\* of the first chunk, that byte, then the bytes of the next chunk; of these
\* only quotes and line endings make read return an offset
LongInputs ==
    { Pad(bufSize - 1) \o <<a>> \o t :
         a \in {quote, CR, Zero}, t \in SeqsUpTo({quote, LF, CR}, MaxLongTail) }

\* one call on any input: short ones with and without a byte limit, long ones
\* with no limit
InitAny ==
    /\ \/ \E delim \in Delimiters :
             \E in \in SeqsUpTo(Alphabet(delim), MaxAnyLen) :
                \E lim \in {0, Len(in), Len(in) + 1} \cup {l \in {Len(in) - 1} : l > 0} :
                   Matcher(in, delim, lim)
       \/ \E in \in LongInputs : Matcher(in, Comma, 0)
    /\ pending = << >>
    /\ history = << >>
    /\ NoDrop
    /\ NoIterate

\* Detect runs on: nothing suspends a call
SpecAny == InitAny /\ [][Next]_vars /\ WF_vars(Next)

\* one call whose byte source may fail on any Read
NextFailing == Next \/ ReadFail

SpecFailing == InitLimit /\ [][NextFailing]_vars

\* no call of Detect
NoDetect ==
    /\ raw = << >> /\ delimiter = Comma /\ limit = 0
    /\ reader = << >> /\ readErr = "nil"
    /\ sw = newSlidingWindow(bufSize, 3, 1)
    /\ state = newDetectState(Comma, svLineLimit)
    /\ i = 0 /\ offset = 0 /\ pc = "idle" /\ result = FALSE
    /\ pending = << >> /\ history = << >>

\* a call of DropLastLine on its own, as in TestDropLastLine
InitDrop ==
    /\ NoDetect
    /\ NoIterate
    /\ \E b \in SeqsUpTo({LF, CR, Zero}, MaxDropLen), readLimit \in 0..(MaxDropLen + 1) :
          dl = [b |-> b, readLimit |-> readLimit, pc |-> "call", got |-> << >>]

CallDropLastLine ==
    /\ dl.pc = "call"
    /\ dl' = [dl EXCEPT !.got = DropLastLine(dl.b, dl.readLimit), !.pc = "done"]
    /\ UNCHANGED <<raw, delimiter, limit, reader, readErr, sw, state, i, offset,
                   pc, result, pending, history, sb, it>>

SpecDrop == InitDrop /\ [][CallDropLastLine]_vars

\* ---------------------------------------------------------------- slidingBuffer.iterate
\* a source whose bytes tell their position: 1, 2, ..., n
Source(n) == [k \in 1..n |-> k]

\* the processFuncs: 0 and nil throughout, or on one byte an offset, or io.EOF,
\* or a processing error
Plans(n) ==
    {[at |-> 0, k |-> 0, err |-> "nil"]}
    \cup {[at |-> a, k |-> k, err |-> "nil"] : a \in 1..n, k \in 1..MaxOffset}
    \cup {[at |-> a, k |-> 0, err |-> e] : a \in 1..n, e \in {"EOF", "procErr"}}

\* what one Read of the source may return: an error, io.EOF at the end of the
\* data, or any number of bytes up to len(buf), the last ones with or without
\* io.EOF
ReadOutcomes ==
    LET left == Len(it.data) - it.pos
    IN  {[n |-> 0, err |-> "error"]}
        \cup (IF left = 0 THEN {[n |-> 0, err |-> "EOF"]} ELSE {})
        \cup {[n |-> n, err |-> "nil"] : n \in 1..Min(sb.bufSize, left)}
        \cup (IF left > 0 /\ left <= sb.bufSize
              THEN {[n |-> left, err |-> "EOF"]} ELSE {})

\* a slidingBuffer of any configuration (0 takes the default) over a source,
\* and a call of iterate
InitIterate ==
    /\ NoDetect
    /\ NoDrop
    /\ \E size \in 1..MaxBuf, ahead \in 0..MaxAhead, behind \in 0..MaxBehind :
          sb = newSlidingBuffer(size, ahead, behind)
    /\ \E n \in 0..MaxData : \E plan \in Plans(n) :
          it = iterateStart(Source(n), plan)

\* iterate: one reader.Read, the compaction and the append of the chunk
IterRead ==
    /\ it.pc = "read"
    /\ \E r \in ReadOutcomes :
          LET it1 == [it EXCEPT !.n = r.n, !.readErr = r.err, !.pos = @ + r.n,
                                !.reads = @ + 1, !.visitsAtRead = Len(it.log)]
          IN  IF readFails(r.err)
              THEN /\ it' = [it1 EXCEPT !.pc = "returned", !.ret = r.err]
                   /\ sb' = sb
              ELSE IF r.n = 0
              THEN \* break; sw.start += 1; the final loop starts at sw.start
                   /\ sb' = [sb EXCEPT !.start = @ + 1]
                   /\ it' = [it1 EXCEPT !.pc = "final", !.i = sb.start + 1]
              ELSE IF compactPanics(sb)
                      \/ appendPanics(sb, IF sb.start > 0
                                          THEN sb.end - sb.start ELSE sb.end)
              THEN \* slice bounds out of range
                   /\ it' = [it1 EXCEPT !.pc = "panic"]
                   /\ sb' = sb
              ELSE LET kept == IF sb.start > 0
                               THEN Slice(sb.window, sb.start, sb.end)
                               ELSE sb.window
                       all == kept \o Slice(it.data, it.pos, it.pos + r.n)
                       \* copy stops at the end of sw.window
                       win == Slice(all, 0, Min(Len(all), WindowLen(sb)))
                   IN  /\ sb' = [sb EXCEPT !.window = win,
                                           !.start = IF sb.start > 0 THEN 0 ELSE @,
                                           !.end = Len(kept) + r.n,
                                           !.firstIter = FALSE]
                       /\ it' = [it1 EXCEPT !.pc = "main",
                                            !.i = IF sb.firstIter THEN 0
                                                  ELSE sb.lookBehind]
    /\ UNCHANGED <<raw, delimiter, limit, reader, readErr, sw, state, i, offset,
                   pc, result, pending, history, dl>>

\* iterate: one call of processFunc(sw.window, i, sw.end), in either loop
callProcessFunc ==
    IF it.i < 0 \/ it.i >= Len(sb.window)
    THEN \* processFunc reads buf[i]: index out of range
         it' = [it EXCEPT !.pc = "panic"]
    ELSE LET cur == At(sb.window, it.i)
             r == processFunc(it.plan, cur)
             it1 == [it EXCEPT !.log = Append(@, cur), !.offset = r.off,
                               !.readsAtVisit = it.reads]
         IN  IF r.err # "nil"
             THEN it' = [it1 EXCEPT !.pc = "returned", !.ret = iterateReturn(r.err)]
             ELSE it' = [it1 EXCEPT !.i = it.i + r.off + 1]

\* IterMainVisit that does not wait for the lookAhead bytes
IterMainVisit_noLookAhead ==
    /\ it.pc = "main"
    /\ it.i < sb.end
    /\ callProcessFunc
    /\ UNCHANGED <<raw, delimiter, limit, reader, readErr, sw, state, i, offset,
                   pc, result, pending, history, dl, sb>>

\* iterate: one call of processFunc in the main loop
IterMainVisit ==
    /\ it.pc = "main"
    /\ it.i < sb.end - sb.lookAhead
    /\ callProcessFunc
    /\ UNCHANGED <<raw, delimiter, limit, reader, readErr, sw, state, i, offset,
                   pc, result, pending, history, dl, sb>>

\* IterMainDone that never slides the window: start stays 0
IterMainDone_noSlide ==
    /\ it.pc = "main"
    /\ it.i >= sb.end - sb.lookAhead
    /\ IF it.readErr = "EOF"
       THEN /\ sb' = [sb EXCEPT !.start = it.i]
            /\ it' = [it EXCEPT !.pc = "final"]
       ELSE /\ sb' = [sb EXCEPT !.start = 0]
            /\ it' = [it EXCEPT !.pc = "read"]
    /\ UNCHANGED <<raw, delimiter, limit, reader, readErr, sw, state, i, offset,
                   pc, result, pending, history, dl>>

\* iterate: the main loop ends; sw.start = i - 1, then the next Read or the break
IterMainDone ==
    /\ it.pc = "main"
    /\ it.i >= sb.end - sb.lookAhead
    /\ IF it.readErr = "EOF"
       THEN /\ sb' = [sb EXCEPT !.start = it.i]
            /\ it' = [it EXCEPT !.pc = "final"]
       ELSE /\ sb' = [sb EXCEPT !.start = it.i - 1]
            /\ it' = [it EXCEPT !.pc = "read"]
    /\ UNCHANGED <<raw, delimiter, limit, reader, readErr, sw, state, i, offset,
                   pc, result, pending, history, dl>>

IterFinalVisit ==
    /\ it.pc = "final"
    /\ it.i < sb.end
    /\ callProcessFunc
    /\ UNCHANGED <<raw, delimiter, limit, reader, readErr, sw, state, i, offset,
                   pc, result, pending, history, dl, sb>>

\* iterate: the final loop ends, return nil
IterFinalDone ==
    /\ it.pc = "final"
    /\ it.i >= sb.end
    /\ it' = [it EXCEPT !.pc = "returned", !.ret = "nil"]
    /\ UNCHANGED <<raw, delimiter, limit, reader, readErr, sw, state, i, offset,
                   pc, result, pending, history, dl, sb>>

NextIterate ==
    IterRead \/ IterMainVisit \/ IterMainDone \/ IterFinalVisit \/ IterFinalDone

SpecIterate == InitIterate /\ [][NextIterate]_vars

\* ---------------------------------------------------------------- the scan, as seen from the input
\* the bytes the reader delivers in this call
Stream == prepSvReader(raw, limit)
\* the position in Stream of the byte that window[i] holds
Pos == (Len(Stream) - Len(reader)) - (sw.end - i)
\* a call of processFunc
Visit == MainVisit \/ FinalVisit
\* the byte at position p of the stream, NoByte outside it
StreamAt(p) == IF p >= 0 /\ p < Len(Stream) THEN At(Stream, p) ELSE NoByte
\* the fields of detectState that carry the detection from byte to byte
Detection(d) ==
    <<d.lineSize, d.csvLineIdx, d.quoteCount, d.sawCsvDataOnCurrentLine,
      d.isWithinInferredQuote, d.isWithinExplicitQuote, d.isWithinComment,
      d.recordFields, d.complete, d.invalid>>

\* ---------------------------------------------------------------- the input as lines and fields
RECURSIVE SplitLF(_)
\* the lines of s: the pieces between line feeds, the last one unterminated
SplitLF(s) ==
    IF \A k \in 1..Len(s) : s[k] # LF THEN <<s>>
    ELSE LET k == CHOOSE j \in 1..Len(s) :
                     s[j] = LF /\ \A m \in 1..(j - 1) : s[m] # LF
         IN  <<SubSeq(s, 1, k - 1)>> \o SplitLF(SubSeq(s, k + 1, Len(s)))

\* line k of ls without the '\r' of its "\r\n" terminator
LineBody(ls, k) ==
    LET l == ls[k]
    IN  IF k < Len(ls) /\ Len(l) > 0 /\ l[Len(l)] = CR
        THEN SubSeq(l, 1, Len(l) - 1) ELSE l

IsCommentLine(l) == Len(l) > 0 /\ l[1] = comment
\* a line with content that is not a comment
IsDataLine(l) == Len(l) > 0 /\ l[1] # comment

\* the indices of the data lines of input s
DataLines(s) ==
    LET ls == SplitLF(s)
    IN  {k \in 1..Len(ls) : IsDataLine(LineBody(ls, k)) /\ ls[k] # <<CR>>}

RECURSIVE FieldCount(_, _, _, _, _)
\* the number of fields of line l for a strict reader: a field is either free
\* of quotes, or enclosed in quotes with every quote inside it doubled; -1 when
\* l is not such a line.  st: "start" of a field, "bare" field, inside a
\* "quoted" field, or just after a quote inside a quoted field ("q").
FieldCount(l, delim, k, st, n) ==
    IF k > Len(l) THEN (IF st = "quoted" THEN -1 ELSE n)
    ELSE LET c == l[k]
         IN  CASE st = "start" ->
                    IF c = delim THEN FieldCount(l, delim, k + 1, "start", n + 1)
                    ELSE IF c = quote THEN FieldCount(l, delim, k + 1, "quoted", n)
                    ELSE FieldCount(l, delim, k + 1, "bare", n)
               [] st = "bare" ->
                    IF c = delim THEN FieldCount(l, delim, k + 1, "start", n + 1)
                    ELSE IF c = quote THEN -1
                    ELSE FieldCount(l, delim, k + 1, "bare", n)
               [] st = "quoted" ->
                    IF c = quote THEN FieldCount(l, delim, k + 1, "q", n)
                    ELSE FieldCount(l, delim, k + 1, "quoted", n)
               [] OTHER ->
                    IF c = quote THEN FieldCount(l, delim, k + 1, "quoted", n)
                    ELSE IF c = delim THEN FieldCount(l, delim, k + 1, "start", n + 1)
                    ELSE -1

Fields(l, delim) == FieldCount(l, delim, 1, "start", 1)

\* more than one data line, and every line is empty, a comment or a data line
\* of the same k > 1 fields with balanced quotes
ConsistentRows(s, delim) ==
    LET ls == SplitLF(s)
        data == {k \in 1..Len(ls) : IsDataLine(LineBody(ls, k))}
    IN  /\ Cardinality(data) > 1
        /\ \E n \in 2..(Len(s) + 1) :
              \A k \in data : Fields(LineBody(ls, k), delim) = n

\* ---------------------------------------------------------------- claims
\* C1: when Detect has returned, the result is true exactly when invalid is
\* not set, all recorded lines have one and the same field count, that count
\* is greater than 1, and csvLineIdx is greater than 1.
C1_ResultIffConsistentCounts ==
    pc = "done" =>
        (result <=> /\ ~state.invalid
                    /\ \A a, b \in DOMAIN state.recordFields :
                          state.recordFields[a] = state.recordFields[b]
                    /\ \A a \in DOMAIN state.recordFields :
                          state.recordFields[a] > 1
                    /\ state.csvLineIdx > 1)

\* two data lines with different field counts were recorded, and Detect said no
C1_Witness ==
    /\ pc = "done"
    /\ ~result
    /\ state.csvLineIdx = 2
    /\ DOMAIN state.recordFields = {0, 1}
    /\ state.recordFields[0] = 3
    /\ state.recordFields[1] = 2

\* C3: an input with at most one data line (no line feed at all, or one data
\* line among empty and comment lines) gives false, for every delimiter and
\* every limit.
C3_SingleLineIsFalse ==
    (pc = "done" /\ Cardinality(DataLines(raw)) <= 1) => ~result

\* one line of two fields followed by a comment line, scanned to the end
C3_Witness ==
    /\ pc = "done"
    /\ Cardinality(DataLines(raw)) = 1
    /\ Len(SplitLF(raw)) > 1
    /\ state.csvLineIdx = 1
    /\ 0 \in DOMAIN state.recordFields
    /\ state.recordFields[0] = 2
    /\ \E k \in 1..Len(raw) : raw[k] = comment
    /\ ~result

\* C4: an input with more than one data line whose data lines all have the
\* same number k > 1 of fields, with balanced quotes in every field, gives
\* true, through Csv with ',' and through Tsv with the tab.
C4_ConsistentRowsAreTrue ==
    (pc = "done" /\ ConsistentRows(raw, delimiter)) => result

\* two rows of two fields, one of them quoted, were accepted
C4_Witness ==
    /\ pc = "done"
    /\ ConsistentRows(raw, delimiter)
    /\ \E k \in 1..Len(raw) : raw[k] = quote
    /\ result

\* the byte at position p starts a line
AtLineStart(p) == p = 0 \/ StreamAt(p - 1) = LF

\* every line of s with content is a comment
OnlyComments(s) ==
    LET ls == SplitLF(s)
    IN  /\ \E k \in 1..Len(ls) : IsCommentLine(ls[k])
        /\ \A k \in 1..Len(ls) : ls[k] = << >> \/ IsCommentLine(ls[k])

HasCommentLine(s) == \E k \in 1..Len(SplitLF(s)) : IsCommentLine(SplitLF(s)[k])

\* a '#' at the start of a line, outside an explicit quote, opens a comment
\* and records nothing
C5_CommentOpens ==
    (Visit /\ ~state.complete /\ StreamAt(Pos) = comment /\ AtLineStart(Pos)
       /\ ~state.isWithinExplicitQuote)
    => /\ state'.isWithinComment
       /\ state'.recordFields = state.recordFields
       /\ state'.csvLineIdx = state.csvLineIdx

\* whatever byte follows within the comment, and the end of the line or of the
\* scan, records nothing and does not advance csvLineIdx
C5_CommentIgnored ==
    ((Visit \/ Finish) /\ state.isWithinComment)
    => /\ state'.recordFields = state.recordFields
       /\ state'.csvLineIdx = state.csvLineIdx

C5_Results ==
    pc = "done" =>
        /\ OnlyComments(raw) =>
              (~result /\ state.csvLineIdx = 0 /\ DOMAIN state.recordFields = {})
        /\ (HasCommentLine(raw) /\ ConsistentRows(raw, delimiter)) => result

\* C5: a line whose first byte is '#', outside any quote, creates no
\* recordFields entry and does not advance csvLineIdx, whatever follows the
\* '#'; comment lines among consistent data lines keep the result true, and
\* an input of comment lines only gives false.
C5_CommentLinesExcluded ==
    /\ [][C5_CommentOpens /\ C5_CommentIgnored]_vars
    /\ [](C5_Results)

\* a comment line among two rows: two entries, two rows, result true
C5_Witness ==
    /\ pc = "done"
    /\ HasCommentLine(raw)
    /\ DOMAIN state.recordFields = {0, 1}
    /\ state.csvLineIdx = 2
    /\ result

\* C7: in an explicitly quoted field a quote followed by a quote is an escape:
\* both bytes are consumed by the one call, the field stays open, quoteCount and
\* the field counts are unchanged.
C7_EscapedQuote ==
    [][ (Visit /\ state.isWithinExplicitQuote
           /\ StreamAt(Pos) = quote /\ StreamAt(Pos + 1) = quote)
        => /\ i' = i + 2
           /\ state'.isWithinExplicitQuote
           /\ state'.quoteCount = state.quoteCount
           /\ state'.recordFields = state.recordFields ]_vars

\* the call on the first quote of an escape has returned 1
C7_Witness ==
    /\ pc \in {"main", "final"}
    /\ offset = 1
    /\ state.cur = quote
    /\ state.next = quote
    /\ state.isWithinExplicitQuote
    /\ state.quoteCount = 1

\* C9: a carriage return that is the last byte of the stream and follows a line
\* feed is skipped: lineSize, csvLineIdx, quoteCount, recordFields and the
\* flags keep their values.  A carriage return after a line feed that has a
\* following byte other than a line feed is content: it counts in lineSize
\* and, outside a comment, makes the line a data line.
C9_TrailingCR ==
    [][ /\ (Visit /\ StreamAt(Pos) = CR /\ StreamAt(Pos - 1) = LF
              /\ StreamAt(Pos + 1) = NoByte)
           => (Detection(state') = Detection(state) /\ i' = i + 1)
        /\ (Visit /\ ~state.complete /\ StreamAt(Pos) = CR
              /\ StreamAt(Pos - 1) = LF
              /\ StreamAt(Pos + 1) # NoByte /\ StreamAt(Pos + 1) # LF)
           => /\ state'.lineSize = state.lineSize + 1
              /\ ~state.isWithinComment => state'.sawCsvDataOnCurrentLine ]_vars

\* the last byte, a carriage return after a line feed, was visited and skipped
\* after two rows
C9_Witness ==
    /\ pc = "final"
    /\ i = sw.end
    /\ state.cur = CR
    /\ state.prev = LF
    /\ state.next = NoByte
    /\ state.lineSize = 0
    /\ state.csvLineIdx = 2

\* C8: "\r\n" and "\n" are the same line terminator: scanning an input without
\* carriage returns and scanning it with every "\n" replaced by "\r\n" end
\* with the same csvLineIdx, the same recordFields and the same result.
C8_CRLFSameAsLF ==
    (pc = "done" /\ Len(history) = 1) =>
        /\ state.csvLineIdx = history[1].state.csvLineIdx
        /\ state.recordFields = history[1].state.recordFields
        /\ result = history[1].result

\* two rows ended by "\r\n" were accepted like the two rows ended by "\n"
C8_Witness ==
    /\ pc = "done"
    /\ Len(history) = 1
    /\ raw = WithCRLF(history[1].raw)
    /\ raw # history[1].raw
    /\ state.csvLineIdx = 2
    /\ result
    /\ history[1].result

\* the byte after position p ends a field: the delimiter, a line ending or the
\* end of the stream
TerminatorAfter(p) ==
    \/ StreamAt(p + 1) \in {NoByte, delimiter, LF}
    \/ StreamAt(p + 1) = CR /\ StreamAt(p + 2) = LF

\* the input starts like "a"b: a quoted field whose first quote after the
\* opening one is followed by a plain data byte
ClosedThenData(s) ==
    \E k \in 2..(Len(s) - 1) :
       /\ s[1] = quote
       /\ \A m \in 2..(k - 1) : s[m] = Zero
       /\ s[k] = quote
       /\ s[k + 1] = Zero

C10_AsStated ==
    (pc = "done" /\ Len(history) = 1 /\ limit = 0
       /\ history[1].raw = SubSeq(raw, 1, Len(history[1].raw))
       /\ Len(SplitLF(history[1].raw)) = svLineLimit + 1
       /\ SplitLF(history[1].raw)[svLineLimit + 1] = << >>)
    => result = history[1].result

\* the number of line feeds in s
CountLF(s) == Cardinality({k \in 1..Len(s) : s[k] = LF})

\* C2: for an input with fewer than 10 line feeds, delimiter ',' and limit 0,
\* Detect returns what the reference check on the standard CSV reader returns.
C2_DetectMatchesStdlib ==
    (pc = "done" /\ delimiter = Comma /\ limit = 0 /\ CountLF(raw) < svLineLimit)
    => result = svStdlib(raw, Comma, 0)

\* a row with a bare quote in an unquoted field, accepted by both detectors
C2_Witness ==
    /\ pc = "done"
    /\ delimiter = Comma
    /\ limit = 0
    /\ \E k \in 1..Len(raw) : raw[k] = quote
    /\ result
    /\ svStdlib(raw, Comma, 0)

C12_AsStated ==
    /\ limit > 0 => (Len(Stream) - Len(reader) <= limit /\ sw.end <= limit)
    /\ (pc = "done" /\ Len(history) = 3)
          => /\ limit = history[1].limit
             /\ raw = Slice(history[1].raw, 0, limit)
             /\ result = history[1].result

\* C13: two calls of Detect with the same bytes, delimiter and limit return the
\* same boolean, whichever entry of recordFields the map iteration of
\* isValidCSV yields first in either call, and end in the same detectState.
C13_Deterministic ==
    (pc = "done" /\ Len(history) = 1)
       => /\ raw = history[1].raw
          /\ delimiter = history[1].delimiter
          /\ limit = history[1].limit
          /\ result = history[1].result
          /\ state = history[1].state

\* both calls ended with lines of different field counts, so the map iteration
\* had more than one positive entry to yield first
C13_Witness ==
    /\ pc = "done"
    /\ Len(history) = 1
    /\ Cardinality(fieldCountChoices(state)) > 1
    /\ Cardinality(fieldCountChoices(history[1].state)) > 1
    /\ result = history[1].result

\* C14: on every input, with every delimiter and limit, Detect returns a
\* boolean: it never panics, never indexes the window outside its bounds, and
\* every call comes to its return.
C14_Terminates ==
    /\ [](pc # "panic")
    /\ [](/\ sw.end <= WindowLen(sw)
          /\ Len(sw.window) = sw.end
          /\ (pc \in {"main", "final"} => i >= 0))
    /\ [](result \in BOOLEAN)
    /\ <>(pc = "done")

\* a call on malformed input that needed a second round of reads
C14_Witness ==
    /\ pc = "done"
    /\ Len(raw) > bufSize
    /\ \E k \in 1..Len(raw) : raw[k] = CR /\ \A m \in 1..Len(raw) : raw[m] # LF
    /\ \E k \in 1..Len(raw) : raw[k] = quote

\* C15 as stated: when a Read of the byte source fails with an error other
\* than end-of-stream, the call ends with the result false and does not crash
\* the caller.
C15_AsStated ==
    readErr = "error" => (pc = "done" /\ result = FALSE)

\* the positions of the line feeds of b, the first byte at position 1
LFPositions(b) == {k \in 1..Len(b) : b[k] = LF}

\* the largest element of a nonempty set of numbers
Largest(S) == CHOOSE k \in S : \A m \in S : m <= k

\* s is a prefix of b
IsPrefix(s, b) == Len(s) <= Len(b) /\ \A k \in 1..Len(s) : s[k] = b[k]

\* C16 as stated: DropLastLine(b, limit) returns b when limit is 0 or
\* len(b) < limit; otherwise it cuts b at its last line feed, wherever that
\* line feed is, and returns b when b has no line feed; the result is a prefix
\* of b.
C16_AsStated ==
    dl.pc = "done" =>
       /\ IsPrefix(dl.got, dl.b)
       /\ (dl.readLimit = 0 \/ Len(dl.b) < dl.readLimit) => dl.got = dl.b
       /\ (~(dl.readLimit = 0 \/ Len(dl.b) < dl.readLimit))
             => IF LFPositions(dl.b) = {} THEN dl.got = dl.b
                ELSE Len(dl.got) = Largest(LFPositions(dl.b)) - 1

\* C16 amended: as stated, but the line feed looked for is the last one after
\* the first byte of b (a line feed in the first byte is never found), the
\* result ends just before it, and b is returned when there is none.
C16_DropsAfterFirstByte ==
    dl.pc = "done" =>
       /\ IsPrefix(dl.got, dl.b)
       /\ (dl.readLimit = 0 \/ Len(dl.b) < dl.readLimit) => dl.got = dl.b
       /\ (~(dl.readLimit = 0 \/ Len(dl.b) < dl.readLimit))
             => IF LFPositions(dl.b) \ {1} = {} THEN dl.got = dl.b
                ELSE Len(dl.got) = Largest(LFPositions(dl.b) \ {1}) - 1

\* a call at the limit on bytes that start with a line feed and hold another
C16_Witness ==
    /\ dl.pc = "done"
    /\ dl.readLimit > 0
    /\ Len(dl.b) >= dl.readLimit
    /\ 1 \in LFPositions(dl.b)
    /\ LFPositions(dl.b) # {1}
    /\ dl.got # dl.b

\* the bytes processFunc was called on, as a set
Visited == {it.log[j] : j \in 1..Len(it.log)}

\* C17 as stated: when processFunc always returns offset 0 and no error,
\* iterate calls it once for every byte of the source, in source order,
\* however the source splits its data into reads and whatever the chunk size,
\* lookAhead and lookBehind are.
C17_AsStated ==
    (it.pc # "idle" /\ it.plan.at = 0)
       => /\ it.pc # "panic"
          /\ IsPrefix(it.log, it.data)
          /\ (it.pc = "returned" /\ it.ret = "nil") => it.log = it.data

\* C18 as stated: when processFunc returns the offset k on a byte, the next k
\* bytes of the source are not visited and the next call is on the byte k + 1
\* positions later, also across the end of a read chunk and across the end of
\* the main loop.
C18_AsStated ==
    (it.pc # "idle" /\ it.plan.err = "nil" /\ it.plan.at \in Visited
        /\ it.plan.at + it.plan.k <= Len(it.data))
       => /\ it.pc # "panic"
          /\ \A b \in Visited : ~(b > it.plan.at /\ b <= it.plan.at + it.plan.k)
          /\ \A j \in 1..(Len(it.log) - 1) :
                it.log[j] = it.plan.at => it.log[j + 1] = it.plan.at + it.plan.k + 1
          /\ (it.pc = "returned" /\ it.ret = "nil"
                /\ it.plan.at + it.plan.k + 1 <= Len(it.data))
                => (it.plan.at + it.plan.k + 1) \in Visited

\* C19: once processFunc has returned io.EOF, iterate has returned nil; once it
\* has returned another error, iterate has returned that error; in both cases
\* that call was the last call of processFunc and the source was not read
\* again.
C19_StopOnVisitError ==
    (it.plan.err # "nil" /\ it.plan.at \in Visited)
       => /\ it.pc = "returned"
          /\ it.ret = (IF it.plan.err = "EOF" THEN "nil" ELSE it.plan.err)
          /\ it.log[Len(it.log)] = it.plan.at
          /\ \A j \in 1..(Len(it.log) - 1) : it.log[j] # it.plan.at
          /\ it.reads = it.readsAtVisit

\* processFunc stopped the iteration after some calls, with bytes of the source
\* still unread
C19_Witness ==
    /\ it.pc = "returned"
    /\ it.plan.err = "EOF"
    /\ it.ret = "nil"
    /\ Len(it.log) > 1
    /\ it.log[Len(it.log)] = it.plan.at
    /\ it.pos < Len(it.data)

\* C20: once a Read of the source has failed, iterate has returned that error
\* and processFunc has not been called since that Read began; when the first
\* Read fails, processFunc is never called.
C20_ReadErrorReturned ==
    it.readErr = "error"
       => /\ it.pc = "returned"
          /\ it.ret = "error"
          /\ Len(it.log) = it.visitsAtRead
          /\ it.reads = 1 => it.log = << >>

\* a later Read failed, with bytes in the window that were never visited
C20_Witness ==
    /\ it.readErr = "error"
    /\ it.ret = "error"
    /\ it.reads > 1
    /\ it.log # << >>
    /\ it.log[Len(it.log)] < it.pos

\* ---------------------------------------------------------------- the window handed to processFunc
\* iterate is about to call processFunc(sw.window, i, sw.end)
VisitDue == ENABLED IterMainVisit \/ ENABLED IterFinalVisit

\* the position in the source (0-based) of the byte that window[i] holds, the
\* window ending with the last byte read
SourcePos == it.pos - (sb.end - it.i)

\* C21: at every call processFunc(buf, i, n), buf[i] is the source byte at its
\* position p; when p > 0, i > 0 and buf[i-1] is the source byte at p - 1; for
\* 1 <= j <= lookAhead, when the source has a byte at p + j then i + j < n and
\* buf[i+j] is that byte.
C21_WindowAroundByte ==
    VisitDue =>
       LET p == SourcePos
       IN  /\ it.i >= 0 /\ it.i < Len(sb.window)
           /\ p >= 0 /\ p < Len(it.data)
           /\ At(sb.window, it.i) = At(it.data, p)
           /\ p > 0 => (it.i > 0 /\ At(sb.window, it.i - 1) = At(it.data, p - 1))
           /\ \A j \in 1..sb.lookAhead :
                 p + j < Len(it.data)
                    => /\ it.i + j < sb.end
                       /\ it.i + j < Len(sb.window)
                       /\ At(sb.window, it.i + j) = At(it.data, p + j)

\* a call in a later chunk on the first byte not yet visited: the byte before
\* it was read by an earlier Read, and the bytes after it by this one
C21_Witness ==
    /\ VisitDue
    /\ it.pc = "main"
    /\ it.reads > 1
    /\ it.i = sb.lookBehind
    /\ SourcePos > 0
    /\ SourcePos + sb.lookAhead < Len(it.data)
    /\ At(sb.window, it.i - 1) = At(it.data, SourcePos - 1)

\* C22 as stated: in every state of the sliding window end <= len(window) and
\* start <= end, every call of processFunc gets an index 0 <= i < end, and no
\* chunk is written past the end of the window.
C22_AsStated ==
    /\ sb.end <= WindowLen(sb)
    /\ sb.start <= sb.end
    /\ VisitDue => (it.i >= 0 /\ it.i < sb.end)
    /\ Len(sb.window) = sb.end

\* C22: in every state of the sliding window end <= len(window), every call of
\* processFunc gets an index 0 <= i < end, and no chunk is written past the
\* end of the window (the window holds all of window[0:end]); start <= end + 1
\* when lookBehind is 1 and processFunc returns no offset.
C22_WindowBounds ==
    /\ sb.end <= WindowLen(sb)
    /\ VisitDue => (it.i >= 0 /\ it.i < sb.end)
    /\ Len(sb.window) = sb.end
    /\ (sb.lookBehind = 1 /\ it.plan.k = 0) => sb.start <= sb.end + 1

\* after several Reads the window is full to its last byte and processFunc is
\* about to be called
C22_Witness ==
    /\ it.reads > 2
    /\ sb.end = WindowLen(sb)
    /\ Len(sb.window) = WindowLen(sb)
    /\ VisitDue
    /\ it.i < sb.end

\* C23: in every state of a scan the explicit-quote flag and the inferred-quote
\* flag are not both set.
C23_OneQuoteMode == ~(state.isWithinExplicitQuote /\ state.isWithinInferredQuote)

\* read was called on a data byte inside an explicitly quoted field that
\* follows an unquoted field
C23_Witness ==
    /\ state.isWithinExplicitQuote
    /\ ~state.isWithinInferredQuote
    /\ state.cur = Zero
    /\ state.prev = quote
    /\ Pos >= 4
    /\ StreamAt(0) = Zero
    /\ MapGet(state.recordFields, state.csvLineIdx) = 2

\* ---------------------------------------------------------------- resets at field and line boundaries
\* one call on any short input, or the calls on svLineLimit rows and on these
\* rows followed by more bytes, which reach the line cap
InitReset == Init \/ InitCap

SpecReset == InitReset /\ [][NextCalls]_vars

\* read takes the byte at position p for a newline: "\n" not after "\r", or the
\* "\r" of "\r\n"
NewlineAt(p) ==
    \/ StreamAt(p) = LF /\ StreamAt(p - 1) # CR
    \/ StreamAt(p) = CR /\ StreamAt(p + 1) = LF

\* read processes the byte at Pos as a delimiter outside an explicit quote
DelimiterVisit ==
    /\ Visit
    /\ ~state.complete
    /\ ~state.isWithinExplicitQuote
    /\ ~state.isWithinComment
    /\ StreamAt(Pos) = delimiter

\* read processes the byte at Pos as a newline outside an explicit quote
NewlineVisit ==
    /\ Visit
    /\ ~state.complete
    /\ ~state.isWithinExplicitQuote
    /\ NewlineAt(Pos)

\* the newline at which handleNewline finds the line cap reached
AtLineCap == state.lineLimit > 0 /\ state.csvLineIdx >= state.lineLimit

\* after a delimiter: nothing left of the field before it; the inferred-quote
\* flag is set for the field after it, from the bytes that follow alone
AfterDelimiter ==
    /\ state'.quoteCount = 0
    /\ ~state'.isWithinExplicitQuote
    /\ state'.isWithinInferredQuote
          = (StreamAt(Pos + 1) # quote /\ ~TerminatorAfter(Pos))

\* C24 as stated: after a delimiter processed outside an explicit quote, after
\* a newline processed outside an explicit quote and after the end-of-scan
\* flush, quoteCount is 0, the explicit-quote flag is false and no
\* inferred-quote state of the previous field remains.
C24_AsStated ==
    [][ /\ DelimiterVisit => AfterDelimiter
        /\ NewlineVisit => /\ state'.quoteCount = 0
                           /\ ~state'.isWithinExplicitQuote
                           /\ ~state'.isWithinInferredQuote
        /\ Finish => /\ state'.quoteCount = 0
                     /\ ~state'.isWithinExplicitQuote
                     /\ ~state'.isWithinInferredQuote ]_vars

\* C24: after a delimiter processed outside an explicit quote, and after a
\* newline processed outside an explicit quote that is not the newline at
\* which the line cap ends the scan, quoteCount is 0, the explicit-quote flag
\* is false and no inferred-quote state of the previous field remains; after
\* the end-of-scan flush quoteCount is 0 and the inferred-quote flag is false,
\* while the explicit-quote flag keeps its value.  The newline at the line cap
\* sets complete and leaves quoteCount and the inferred-quote flag as they are.
C24_ResetAtBoundaries ==
    [][ /\ DelimiterVisit => AfterDelimiter
        /\ (NewlineVisit /\ AtLineCap)
              => /\ state'.complete
                 /\ state'.quoteCount = state.quoteCount
                 /\ state'.isWithinInferredQuote = state.isWithinInferredQuote
        /\ (NewlineVisit /\ ~AtLineCap)
              => /\ state'.quoteCount = 0
                 /\ ~state'.isWithinExplicitQuote
                 /\ ~state'.isWithinInferredQuote
        /\ Finish => /\ state'.quoteCount = 0
                     /\ ~state'.isWithinInferredQuote
                     /\ state'.isWithinExplicitQuote = state.isWithinExplicitQuote ]_vars

\* a delimiter that followed a closed quoted field has reset quoteCount from 2
\* and armed the inferred quote for the next field
C24_Witness ==
    /\ pc \in {"main", "final"}
    /\ state.cur = delimiter
    /\ state.prev = quote
    /\ StreamAt(0) = quote
    /\ state.quoteCount = 0
    /\ state.isWithinInferredQuote
    /\ ~state.isWithinExplicitQuote
    /\ MapGet(state.recordFields, state.csvLineIdx) = 2

\* C25: within a call complete and invalid, once set, stay set, and a call of
\* read on a complete state changes none of lineSize, csvLineIdx, quoteCount,
\* the quote, comment and data flags, recordFields, complete and invalid.
C25_CompleteIsTerminal ==
    [][ pc # "done"
           => /\ state.complete => state'.complete
              /\ state.invalid => state'.invalid
              /\ (Visit /\ state.complete)
                    => (Detection(state') = Detection(state) /\ i' = i + 1) ]_vars

\* the line cap has ended the scan at the newline of the 11th line, and the
\* delimiter after it was visited without a trace
C25_Witness ==
    /\ pc = "final"
    /\ state.complete
    /\ ~state.invalid
    /\ state.cur = LF
    /\ StreamAt(Pos - 1) = delimiter
    /\ StreamAt(Pos - 2) = LF
    /\ state.csvLineIdx = svLineLimit
    /\ svLineLimit \notin DOMAIN state.recordFields

\* Process is about to call processFunc again
ProcessCallsBack ==
    \/ pc = "main" /\ i < sw.end - sw.lookAhead
    \/ pc = "final" /\ i < sw.end

\* Process is about to read the source again
ProcessReadsOn ==
    \/ pc = "read"
    \/ pc = "main" /\ i >= sw.end - sw.lookAhead /\ readErr # "EOF"

\* C26 as stated: the call of read that finds complete set is the last one of
\* the scan: after it Process neither calls read again nor reads the source
\* again.
C26_AsStated ==
    [][ (Visit /\ state.complete) => ~(ProcessCallsBack' \/ ProcessReadsOn') ]_vars

\* read processes a '#' that is not the first byte of its line, or that lies
\* in a quoted field open since a previous line
CommentMarkInLine ==
    /\ Visit
    /\ ~state.complete
    /\ StreamAt(Pos) = comment
    /\ ~AtLineStart(Pos) \/ state.isWithinExplicitQuote

\* C27: a '#' that follows another byte on its line, or that lies inside a
\* quoted field, never sets isWithinComment; outside a comment it is field
\* content: it counts in lineSize and its line is a data line.
C27_CommentOnlyAtLineStart ==
    [][ CommentMarkInLine
           => /\ state'.isWithinComment = state.isWithinComment
              /\ ~state.isWithinComment
                    => /\ state'.lineSize = state.lineSize + 1
                       /\ state'.sawCsvDataOnCurrentLine
                       /\ lineHasData(state') ]_vars

\* a '#' right after a delimiter was taken for field content
C27_Witness ==
    /\ pc \in {"main", "final"}
    /\ state.cur = comment
    /\ state.prev = delimiter
    /\ ~state.isWithinComment
    /\ state.isWithinInferredQuote
    /\ MapGet(state.recordFields, state.csvLineIdx) = 2

\* the number of delimiters in line l
CountDelimiters(l) == Cardinality({k \in 1..Len(l) : l[k] = delimiter})

\* the data lines of s before line k: the key of line k in recordFields
LineKey(s, k) == Cardinality({m \in DataLines(s) : m < k})

\* s has no quote and no carriage return: its lines are the pieces between
\* line feeds and every delimiter is outside quotes
Plain(s) == \A k \in 1..Len(s) : s[k] \notin {quote, CR}

PlainInput == Plain(raw)

\* the field count read records for line l of a plain input
PlainCount(l) == IF CountDelimiters(l) = 0 THEN 0 ELSE 1 + CountDelimiters(l)

\* C28: the entry of a data line in recordFields is 0 when the line has no
\* delimiter outside an explicit quote and otherwise 1 plus the number of these
\* delimiters: a delimiter processed outside an explicit quote sets the entry
\* of its line to 2 when it is the first and adds 1 otherwise; no other byte,
\* a delimiter inside an explicit quote included, changes an entry (it can only
\* create the entry of its line, as 0), nor does the flush.  For an input
\* without quotes that is scanned to its end the entries are these counts,
\* line by line.
C28_FieldCountPerLine ==
    /\ [][ /\ DelimiterVisit
              => /\ state'.csvLineIdx = state.csvLineIdx
                 /\ state'.recordFields
                       = MapPut(state.recordFields, state.csvLineIdx,
                                IF MapGet(state.recordFields, state.csvLineIdx) = 0
                                THEN 2
                                ELSE state.recordFields[state.csvLineIdx] + 1)
           /\ (Visit /\ ~DelimiterVisit)
              => \/ state'.recordFields = state.recordFields
                 \/ /\ ~lineHasData(state)
                    /\ state'.recordFields
                          = MapPut(state.recordFields, state.csvLineIdx, 0)
           /\ Finish => state'.recordFields = state.recordFields ]_vars
    /\ []((pc = "done" /\ limit = 0 /\ PlainInput /\ ~state.complete)
            => /\ DOMAIN state.recordFields = 0..(Cardinality(DataLines(raw)) - 1)
               /\ \A k \in DataLines(raw) :
                     state.recordFields[LineKey(raw, k)]
                        = PlainCount(SplitLF(raw)[k]))

\* a line with a delimiter inside a quoted field and two delimiters after it
\* has ended with the entry 3
C28_Witness ==
    /\ pc = "done"
    /\ Len(raw) = 5
    /\ raw[1] = quote /\ raw[2] = delimiter /\ raw[3] = quote
    /\ raw[4] = delimiter /\ raw[5] = delimiter
    /\ state.recordFields = MapPut(EmptyMap, 0, 3)

\* read processes a newline that ends a line with content, outside a comment,
\* in which no delimiter was counted
PlainLineEnds ==
    /\ NewlineVisit
    /\ ~AtLineCap
    /\ ~state.isWithinComment
    /\ state.lineSize > 0
    /\ MapGet(state.recordFields, state.csvLineIdx) = 0

\* C29 as stated: the newline that ends a line with content that is not a
\* comment and has no field count marks the record invalid, and Detect returns
\* false whenever such a line was scanned.
C29_AsStated ==
    /\ [][ PlainLineEnds => (state'.invalid /\ state'.complete) ]_vars
    /\ []((pc = "done" /\ \E k \in DOMAIN state.recordFields :
                             state.recordFields[k] = 0) => ~result)

Scanning == pc \in {"read", "main", "final"}

\* the values handleQuote and newField leave in quoteCount
QuoteCounts == {0, 1, 2}

\* the result isValidCSV computes from the field counts and the row count
\* alone, leaving the invalid flag out
CountsValid(d) ==
    /\ d.csvLineIdx > 1
    /\ \E n \in fieldCountChoices(d) : n > 1
    /\ \A n \in fieldCountChoices(d) :
           \A k \in DOMAIN d.recordFields : d.recordFields[k] = n

====
